---- MODULE Spec2Model ----
(***************************************************************************)
(* md2web: the FileWatcher (watch registrations, the syncing flag, the     *)
(* change/add handlers and handleFileChange) and the watch / watch-dir     *)
(* commands around it; the template extractor and resolver; the            *)
(* table-of-contents / title logic of the renderer; the front-matter       *)
(* parser; mdToHtml run again on its own output; and mdToPdf.              *)
(***************************************************************************)
EXTENDS Integers, Sequences, FiniteSets, TLC

\* ------------------------------------------------------------------ bounds
MaxEdits == 2      \* external writes to files of the watched directory
MaxCalls == 2      \* watch* / stop / stopAll calls (one closing stopAll may follow)
MaxTasks == 2      \* async executions (handlers, watchMarkdown calls) alive at once
MaxFsChanges == 1  \* rewrites of template files between calls
MaxTCalls == 2     \* extractTemplate / mdToHtml calls on one Converter
MaxHeadings == 3   \* headings of a rendered fragment
MaxFmLines == 2    \* lines of a front-matter block
MaxPdfCalls == 3   \* mdToPdf calls on one Markdown file
MaxRuns == 3       \* mdToHtml calls on one unchanged Markdown file

VARIABLES
    watchers,   \* FileWatcher.watchers: path -> handle id (0: no entry)
    handles,    \* every chokidar watcher created, in creation order
    syncing,    \* FileWatcher.syncing
    tasks,      \* async executions in flight, with their position
    pending,    \* file-system events chokidar has yet to deliver
    mtime,      \* modification time of each file (0: the file does not exist)
    unread,     \* Markdown files changed since a conversion last read them
    options,    \* the options this run passes to watchDirectory
    edits,      \* external writes so far
    universe,   \* the files the directory can hold in this run
    calls,      \* API calls so far
    tfs,        \* what each template path holds
    tlist,      \* the order in which readdir lists the *.html files
    tcache,     \* Converter.templateCache
    tcall,      \* the extractTemplate / template-selection call in progress
    tres,       \* the Template the last call returned
    tchanges,   \* template file rewrites so far
    tcalls,     \* calls so far
    rfrag,      \* the headings of the fragment marked rendered, in document order
    rpc,        \* "input" while the fragment is built, "done" after applyTemplate
    rmeta,      \* the metadata given to applyTemplate
    rtpl,       \* the template given to applyTemplate
    rtoc,       \* what generateTOC returned
    rtitle,     \* the <title> of the assembled document
    rbody,      \* the content of the container: the headings and the injected TOC
    ppc,        \* where the mdToPdf call stands ("idle" between calls)
    ptemp,      \* what <name>-temp.html holds
    ppdf,       \* what the output PDF holds
    pbrowsers,  \* browsers launched and not closed
    pmade,      \* the call in progress (or the last one) wrote <name>-temp.html
    pres,       \* how the last call ended
    pcalls,     \* mdToPdf calls so far
    flines,     \* the lines written between the two --- delimiters
    fbody,      \* the Markdown text written after the closing delimiter
    fpc,        \* "input" while the file is written, "done" after the parse
    fmeta,      \* the metadata mdToHtml parsed
    fout,       \* the Markdown text mdToHtml hands to marked
    process,    \* the md2web process of a watch / watch-dir command
    hcanon,     \* what src/template.html holds
    hout,       \* what the output .html of the Markdown file holds
    htitle,     \* the title the Markdown gives (metadata or first h1), "" without one
    hpc,        \* where the mdToHtml call stands ("idle" between calls)
    htpl,       \* the template the call selected
    hbefore,    \* what the output file held when the call started
    hlog,       \* the documents the calls wrote, in order
    hres,       \* how the last call ended
    hruns       \* mdToHtml calls so far

wvars == <<watchers, handles, syncing, tasks, pending, mtime, unread, options,
           edits, universe, calls>>

tvars == <<tfs, tlist, tcache, tcall, tres, tchanges, tcalls>>

rvars == <<rfrag, rpc, rmeta, rtpl, rtoc, rtitle, rbody>>

pvars == <<ppc, ptemp, ppdf, pbrowsers, pmade, pres, pcalls>>

fvars == <<flines, fbody, fpc, fmeta, fout>>

cvars == <<process>>

hvars == <<hcanon, hout, htitle, hpc, htpl, hbefore, hlog, hres, hruns>>

vars == <<wvars, tvars, rvars, pvars, fvars, cvars, hvars>>

\* ------------------------------------------------------- the file system
MdFiles == {"a.md", "b.md"}
HtmlFiles == {"a.html", "b.html"}
Files == MdFiles \cup HtmlFiles
DirPath == "d"
WatchPaths == MdFiles \cup {DirPath}

\* path.extname
ExtName(f) == IF f \in MdFiles THEN ".md" ELSE ".html"

\* path.join(dir, `${name}.html`) / path.join(dir, `${name}.md`)
SwapExt(f) ==
    CASE f = "a.md" -> "a.html"
      [] f = "a.html" -> "a.md"
      [] f = "b.md" -> "b.html"
      [] f = "b.html" -> "b.md"

PathExists(f) == mtime[f] > 0

\* time stamps: only their order is observed (mtime >= mtime), so the model keeps
\* the time stamps in use as ranks 1, 2, ... and a write takes the next one
StampsIn(m, tk) == ({m[f] : f \in Files} \cup {tk[t].srcM : t \in DOMAIN tk}) \ {0}

Rank(x, m, tk) == IF x = 0 THEN 0 ELSE Cardinality({v \in StampsIn(m, tk) : v <= x})

RankFiles(m, tk) == [f \in Files |-> Rank(m[f], m, tk)]

RankTasks(m, tk) == [t \in DOMAIN tk |-> [tk[t] EXCEPT !.srcM = Rank(tk[t].srcM, m, tk)]]

\* the time of a write that happens now: later than every time stamp in use
Now == Cardinality(StampsIn(mtime, tasks)) + 1

\* ------------------------------------------------------------- watchers
FileHandle(src, tgt) ==
    [path |-> src, kind |-> "file", open |-> TRUE, target |-> tgt,
     convertExisting |-> FALSE, force |-> FALSE]

DirHandle(ce, force) ==
    [path |-> DirPath, kind |-> "dir", open |-> TRUE, target |-> DirPath,
     convertExisting |-> ce, force |-> force]

HandleIds == 1..Len(handles)

\* chokidar.watch(sourcePath) / chokidar.watch([htmlPattern, mdPattern])
Covers(h, f) == IF h.kind = "file" THEN h.path = f ELSE ExtName(f) \in {".md", ".html"}

\* watcher.on('change', ...), and watcher.on('add', ...) under convertExisting
HasListener(h, ev) ==
    \/ ev = "change"
    \/ ev = "add" /\ h.kind = "dir" /\ h.convertExisting

\* the events one write of file f raises on the open watchers; awaitWriteFinish
\* folds a write of a path whose report is still held into that report
EventsOfWrite(hs, f) ==
    LET ev == IF mtime[f] = 0 THEN "add" ELSE "change"
    IN  {[h |-> i, ev |-> ev, file |-> f] :
            i \in {j \in 1..Len(hs) :
                      /\ hs[j].open /\ Covers(hs[j], f) /\ HasListener(hs[j], ev)
                      /\ ~\E e \in pending : e.h = j /\ e.file = f}}

\* ------------------------------------------------------------------ tasks
NoTask == [kind |-> "free", pc |-> "none", src |-> "a.md", tgt |-> "a.html",
           force |-> FALSE, srcM |-> 0, err |-> "none"]

TaskIds == 1..MaxTasks

FreeIds == {t \in TaskIds : tasks[t].kind = "free"}

\* the lowest free slot: slots are interchangeable
NewTask == CHOOSE t \in FreeIds : \A u \in FreeIds : t <= u

\* a handler without the test of the flag
HandlerGateOff == FALSE

\* `if (this.syncing) return;` at the head of the change and add handlers
HandlerGate == syncing

\* `if (this.watchers.has(sourcePath)) return;`
AlreadyWatching(p) == watchers[p] # 0

\* watchFile: registers a chokidar watcher for sourcePath unless one is registered
WatchFileReg(src, tgt) ==
    IF AlreadyWatching(src)
    THEN /\ UNCHANGED <<handles, watchers>>
    ELSE /\ handles' = Append(handles, FileHandle(src, tgt))
         /\ watchers' = [watchers EXCEPT ![src] = Len(handles) + 1]

\* watchDirectory: creates a watcher and sets the map entry, with no has() test
WatchDirReg(ce, force) ==
    /\ handles' = Append(handles, DirHandle(ce, force))
    /\ watchers' = [watchers EXCEPT ![DirPath] = Len(handles) + 1]

\* the options of a watch-dir run: none, --convert-existing, or --force
DirOptions ==
    {o \in [convertExisting : BOOLEAN, force : BOOLEAN] : ~(o.convertExisting /\ o.force)}

WatchInit ==
    /\ watchers = [p \in WatchPaths |-> 0]
    /\ handles = <<>>
    /\ syncing = FALSE
    /\ tasks = [t \in TaskIds |-> NoTask]
    /\ pending = {}
    /\ universe = {"a.md", "a.html"}
    /\ mtime = [f \in Files |-> IF f \in MdFiles \cap universe THEN 1 ELSE 0]
    /\ unread = {}
    /\ options \in DirOptions
    /\ edits = 0
    /\ calls = 0

\* ---- API calls

\* watchMarkdown(mdPath): runs up to `await fs.pathExists(mdPath)`
WatchMarkdown(md) ==
    /\ calls < MaxCalls
    /\ calls' = calls + 1
    /\ FreeIds # {}
    /\ tasks' = [tasks EXCEPT ![NewTask] =
                    [NoTask EXCEPT !.kind = "init", !.pc = "exists", !.src = md,
                                   !.tgt = SwapExt(md)]]
    /\ UNCHANGED <<watchers, handles, syncing, pending,
                   mtime, unread, edits, universe, options>>
    /\ UNCHANGED <<tvars, rvars, pvars, fvars, cvars, hvars>>

\* watchFile(sourcePath, targetPath, 'md') called directly
WatchFile(src) ==
    /\ calls < MaxCalls
    /\ calls' = IF AlreadyWatching(src) THEN calls ELSE calls + 1
    /\ WatchFileReg(src, SwapExt(src))
    /\ UNCHANGED <<syncing, tasks, pending, mtime, unread, edits, universe, options>>
    /\ UNCHANGED <<tvars, rvars, pvars, fvars, cvars, hvars>>

\* a watcher whose initial scan always reaches a handler
ScansExistingAlways(ce) == TRUE

\* watchDirectory: the initial scan reports the existing files to a handler only
\* under convertExisting (`ignoreInitial: !options.convertExisting`, and the add
\* handler is registered under `if (options.convertExisting)`)
ScansExisting(ce) == ce

\* watchDirectory(dirPath, options)
WatchDirectory ==
    /\ calls < MaxCalls
    /\ calls' = calls + 1
    /\ WatchDirReg(options.convertExisting, options.force)
    \* ignoreInitial: !convertExisting -- the initial scan reports each file as added
    /\ pending' = pending \cup
          (IF ScansExisting(options.convertExisting) THEN {[h |-> Len(handles) + 1, ev |-> "add", file |-> f] :
                          f \in {g \in Files : PathExists(g)}}
                 ELSE {})
    /\ UNCHANGED <<syncing, tasks, mtime, unread, edits, universe, options>>
    /\ UNCHANGED <<tvars, rvars, pvars, fvars, cvars, hvars>>

\* stop(filePath)
Stop(p) ==
    /\ calls < MaxCalls
    /\ calls' = IF watchers[p] # 0 THEN calls + 1 ELSE calls
    /\ IF watchers[p] # 0
       THEN /\ handles' = [handles EXCEPT ![watchers[p]].open = FALSE]
            /\ watchers' = [watchers EXCEPT ![p] = 0]
            /\ pending' = {e \in pending : e.h # watchers[p]}
       ELSE UNCHANGED <<handles, watchers, pending>>
    /\ UNCHANGED <<syncing, tasks, mtime, unread, edits, universe, options>>
    /\ UNCHANGED <<tvars, rvars, pvars, fvars, cvars, hvars>>

\* stopAll: closes every watcher of the map and clears the map
StopAllReg ==
    /\ LET reg == {watchers[p] : p \in WatchPaths} \ {0}
       IN  /\ handles' = [i \in HandleIds |->
                            IF i \in reg THEN [handles[i] EXCEPT !.open = FALSE]
                                         ELSE handles[i]]
           /\ pending' = {e \in pending : e.h \notin reg}
    /\ watchers' = [p \in WatchPaths |-> 0]

\* stopAll(); a session of MaxCalls calls may still be closed by one stopAll
StopAll ==
    /\ calls <= MaxCalls
    /\ calls' = IF \E p \in WatchPaths : watchers[p] # 0 THEN calls + 1 ELSE calls
    /\ StopAllReg
    /\ UNCHANGED <<syncing, tasks, mtime, unread, edits, universe, options>>
    /\ UNCHANGED <<tvars, rvars, pvars, fvars, cvars, hvars>>

\* ---- the environment: an editor writes a file of the directory
ExternalWrite(f) ==
    /\ edits < MaxEdits
    /\ edits' = edits + 1
    /\ LET m == [mtime EXCEPT ![f] = Now]
       IN  /\ mtime' = RankFiles(m, tasks)
           /\ tasks' = RankTasks(m, tasks)
    /\ pending' = pending \cup EventsOfWrite(handles, f)
    /\ unread' = IF f \in MdFiles THEN unread \cup {f} ELSE unread
    /\ UNCHANGED <<watchers, handles, syncing, calls, universe, options>>
    /\ UNCHANGED <<tvars, rvars, pvars, fvars, cvars, hvars>>

\* ---- chokidar delivers an event: the handler runs up to its first await
Deliver(e) ==
    /\ e \in pending
    /\ pending' = pending \ {e}
    /\ IF HandlerGate
       THEN UNCHANGED <<syncing, tasks>>          \* the event is dropped
       ELSE /\ FreeIds # {}
            /\ syncing' = TRUE
            /\ tasks' = [tasks EXCEPT ![NewTask] =
                  IF handles[e.h].kind = "file"
                  THEN \* mdToHtml(sourcePath, templatePath, targetPath)
                       [NoTask EXCEPT !.kind = "file", !.pc = "read",
                                      !.src = handles[e.h].path,
                                      !.tgt = handles[e.h].target]
                  ELSE \* handleFileChange(filePath, options)
                       [NoTask EXCEPT !.kind = "dir", !.pc = "stat",
                                      !.src = e.file, !.tgt = SwapExt(e.file),
                                      !.force = handles[e.h].force]]
    /\ UNCHANGED <<watchers, handles, mtime, unread, edits, calls, universe, options>>
    /\ UNCHANGED <<tvars, rvars, pvars, fvars, cvars, hvars>>

\* ---- the steps of an async execution, one per file-system operation awaited

\* watchMarkdown: `if (!await fs.pathExists(mdPath)) throw ...`
Exists(t) ==
    /\ tasks[t].pc = "exists"
    /\ tasks' = [tasks EXCEPT ![t] =
                    IF PathExists(tasks[t].src) THEN [tasks[t] EXCEPT !.pc = "read"]
                                                ELSE NoTask]
    /\ UNCHANGED <<watchers, handles, syncing, pending, mtime,
                   unread, edits, calls, universe, options>>
    /\ UNCHANGED <<tvars, rvars, pvars, fvars, cvars, hvars>>

\* a handler that an exception leaves at once, without catch and finally
FailedNoFinally(tk) == NoTask

\* where a failed conversion continues: watchMarkdown rejects, a handler's
\* catch block logs and its finally block follows
Failed(tk) ==
    IF tk.kind = "init" THEN NoTask ELSE [tk EXCEPT !.pc = "fin", !.err = "failed"]

\* handleFileChange: `const sourceStats = await fs.stat(filePath)`
Stat(t) ==
    /\ tasks[t].pc = "stat"
    /\ tasks' = [tasks EXCEPT ![t] =
                    IF PathExists(tasks[t].src)
                    THEN [tasks[t] EXCEPT !.pc = "cmp", !.srcM = mtime[tasks[t].src]]
                    ELSE Failed(tasks[t])]
    /\ UNCHANGED <<watchers, handles, syncing, pending, mtime,
                   unread, edits, calls, universe, options>>
    /\ UNCHANGED <<tvars, rvars, pvars, fvars, cvars, hvars>>

\* handleFileChange: the staleness test, `targetStats.mtime >= sourceStats.mtime`
TargetIsCurrent(tk) ==
    PathExists(tk.tgt) /\ ~tk.force /\ mtime[tk.tgt] >= tk.srcM

\* a sync that dispatches every source
SyncSupportsAll(src) == TRUE

\* Converter.sync: only a .md source is converted
SyncSupported(src) == ExtName(src) = ".md"

\* handleFileChange: pathExists(target), stat(target), then converter.sync
Cmp(t) ==
    /\ tasks[t].pc = "cmp"
    /\ LET tk == [tasks EXCEPT ![t] =
                    IF TargetIsCurrent(tasks[t])
                    THEN [tasks[t] EXCEPT !.pc = "fin", !.srcM = 0]
                    ELSE IF SyncSupported(tasks[t].src)
                    THEN [tasks[t] EXCEPT !.pc = "read", !.srcM = 0]
                    ELSE \* `throw new Error('Only Markdown to HTML conversion ...')`
                         [Failed(tasks[t]) EXCEPT !.srcM = 0, !.err = "unsupported"]]
       IN  /\ tasks' = RankTasks(mtime, tk)
           /\ mtime' = RankFiles(mtime, tk)
    /\ UNCHANGED <<watchers, handles, syncing, pending, unread, edits, calls,
                   universe, options>>
    /\ UNCHANGED <<tvars, rvars, pvars, fvars, cvars, hvars>>

\* mdToHtml: `await fs.readFile(mdPath, 'utf8')`
Read(t) ==
    /\ tasks[t].pc = "read"
    /\ IF PathExists(tasks[t].src)
       THEN /\ tasks' = [tasks EXCEPT ![t] =
                            [tasks[t] EXCEPT !.pc = "write"]]
            /\ unread' = unread \ {tasks[t].src}
       ELSE /\ tasks' = [tasks EXCEPT ![t] = Failed(tasks[t])]
            /\ UNCHANGED unread
    /\ UNCHANGED <<watchers, handles, syncing, pending,
                   mtime, edits, calls, universe, options>>
    /\ UNCHANGED <<tvars, rvars, pvars, fvars, cvars, hvars>>

\* where a conversion that wrote its output continues
Written(tk) == [tk EXCEPT !.pc = IF tk.kind = "init" THEN "reg" ELSE "fin"]

\* mdToHtml: `await fs.writeFile(outputPath, finalHtml)`, which may fail
Write(t) ==
    /\ tasks[t].pc = "write"
    /\ \E ok \in BOOLEAN :
         IF ok
         THEN LET m == [mtime EXCEPT ![tasks[t].tgt] = Now]
                  tk == [tasks EXCEPT ![t] = Written(tasks[t])]
              IN  /\ mtime' = RankFiles(m, tk)
                  /\ tasks' = RankTasks(m, tk)
                  /\ pending' = pending \cup EventsOfWrite(handles, tasks[t].tgt)
         ELSE /\ tasks' = [tasks EXCEPT ![t] = Failed(tasks[t])]
              /\ UNCHANGED <<mtime, pending>>
    /\ UNCHANGED <<watchers, handles, syncing, unread, edits, calls, universe, options>>
    /\ UNCHANGED <<tvars, rvars, pvars, fvars, cvars, hvars>>

\* watchMarkdown: `await this.watchFile(mdPath, htmlPath, 'md', templatePath)`
Reg(t) ==
    /\ tasks[t].pc = "reg"
    /\ WatchFileReg(tasks[t].src, tasks[t].tgt)
    /\ tasks' = [tasks EXCEPT ![t] = NoTask]
    /\ UNCHANGED <<syncing, pending, mtime, unread, edits, calls, universe, options>>
    /\ UNCHANGED <<tvars, rvars, pvars, fvars, cvars, hvars>>

\* a handler that returns and leaves the flag as it is
FinKeepsFlag(t) ==
    /\ tasks[t].pc = "fin"
    /\ tasks' = [tasks EXCEPT ![t] = NoTask]
    /\ UNCHANGED <<watchers, handles, syncing, pending, mtime,
                   unread, edits, calls, universe, options>>
    /\ UNCHANGED <<tvars, rvars, pvars, fvars, cvars, hvars>>

\* the handlers' `finally { this.syncing = false; }`
Fin(t) ==
    /\ tasks[t].pc = "fin"
    /\ syncing' = FALSE
    /\ tasks' = [tasks EXCEPT ![t] = NoTask]
    /\ UNCHANGED <<watchers, handles, pending, mtime,
                   unread, edits, calls, universe, options>>
    /\ UNCHANGED <<tvars, rvars, pvars, fvars, cvars, hvars>>

TaskStep(t) ==
    \/ Exists(t)
    \/ Stat(t)
    \/ Cmp(t)
    \/ Read(t)
    \/ Write(t)
    \/ Reg(t)
    \/ Fin(t)

NextWatch ==
    \/ \E md \in MdFiles \cap universe : WatchMarkdown(md)
    \/ \E src \in MdFiles \cap universe : WatchFile(src)
    \/ WatchDirectory
    \/ \E p \in (MdFiles \cap universe) \cup {DirPath} : Stop(p)
    \/ StopAll
    \/ \E f \in universe : ExternalWrite(f)
    \/ \E e \in pending : Deliver(e)
    \/ \E t \in TaskIds : TaskStep(t)

\* ================================================= template extractor / resolver

\* the paths template resolution looks at
Canonical == "src/template.html"       \* path.join(__dirname, 'template.html')
Literal == "page"                      \* the explicit template argument, as a path
Named == "dir/page.html"               \* path.join(dir, `${templatePath}.html`)
Other == "dir/other.html"              \* another *.html file next to the Markdown
Templ == "dir/My-Template.html"        \* a file whose name contains "template"
TPaths == {Canonical, Literal, Named, Other, Templ}
DirHtml == {Named, Other, Templ}       \* the *.html entries readdir(dir) can list

\* f.toLowerCase().includes('template')
NameHasTemplate(p) == p = Templ

\* what a path holds: nothing, a file that cannot be read or parsed, or an HTML
\* document with a <title> text and a <style> text (either may be missing)
Absent == [st |-> "absent", title |-> "", styles |-> ""]
Bad == [st |-> "bad", title |-> "", styles |-> ""]
Doc(title, styles) == [st |-> "ok", title |-> title, styles |-> styles]
Docs == {Doc("", "s1"), Doc("T2", "")}
FileStates == {Absent, Bad} \cup Docs

\* the Template values
NoTemplate == [from |-> "none", title |-> "", styles |-> ""]

\* getDefaultTemplate: the hard-coded object it returns
HardDefault == [from |-> "hard", title |-> "Generated Document", styles |-> "builtin"]

\* extractTemplate: the template object built from a parsed document
ExtractOf(d) ==
    [from |-> "file",
     title |-> IF d.title = "" THEN "Generated Document" ELSE d.title,
     styles |-> d.styles]

\* fs.pathExists
TExists(p) == tfs[p].st # "absent"

\* fs.readFile and cheerio.load succeed
TReadable(p) == tfs[p].st = "ok"

\* files.filter(f => f.endsWith('.html')), in the order readdir listed them
HtmlFilesListed == SelectSeq(tlist, LAMBDA p : TExists(p))

\* htmlFiles.find(f => f.toLowerCase().includes('template'))
FindTemplateFile(hs) ==
    IF \E i \in 1..Len(hs) : NameHasTemplate(hs[i])
    THEN hs[CHOOSE i \in 1..Len(hs) :
                /\ NameHasTemplate(hs[i])
                /\ \A j \in 1..(i - 1) : ~NameHasTemplate(hs[j])]
    ELSE "none"

NoCall == [kind |-> "none", pc |-> "idle", arg |-> "none", cur |-> "none",
           cached |-> NoTemplate, reads |-> 0]

\* no template call is made in this run
TemplateParked ==
    /\ tfs = [p \in TPaths |-> Absent]
    /\ tlist = <<Named, Other, Templ>>
    /\ tcache = [p \in TPaths |-> NoTemplate]
    /\ tcall = NoCall
    /\ tres = NoTemplate
    /\ tchanges = 0
    /\ tcalls = 0

TemplateInit ==
    /\ tfs \in [TPaths -> {Absent, Bad, Doc("", "s1")}]
    /\ tlist \in {<<Named, Other, Templ>>, <<Other, Named, Templ>>}
    /\ tcache = [p \in TPaths |-> NoTemplate]
    /\ tcall = NoCall
    /\ tres = NoTemplate
    /\ tchanges = 0
    /\ tcalls = 0

TIdle == tcall.pc \in {"idle", "done"}

\* the environment rewrites or removes a file between two calls (the call that
\* returned is over: its record is dropped)
FsChange(p, v) ==
    /\ TIdle
    /\ tchanges < MaxFsChanges
    /\ tfs[p] # v
    /\ tchanges' = tchanges + 1
    /\ tfs' = [tfs EXCEPT ![p] = v]
    /\ tcall' = NoCall
    /\ UNCHANGED <<tlist, tcache, tres, tcalls>>
    /\ UNCHANGED <<wvars, rvars, pvars, fvars, cvars, hvars>>

\* extractTemplate(htmlPath) is called
CallExtract(p) ==
    /\ TIdle
    /\ tcalls < MaxTCalls
    /\ tcalls' = tcalls + 1
    /\ tcall' = [NoCall EXCEPT !.kind = "extract", !.pc = "extract", !.arg = p,
                               !.cur = p, !.cached = tcache[p]]
    /\ tres' = NoTemplate
    /\ UNCHANGED <<tfs, tlist, tcache, tchanges>>
    /\ UNCHANGED <<wvars, rvars, pvars, fvars, cvars, hvars>>

\* mdToHtml(mdPath, templatePath) reaches its template selection
CallResolve(explicit) ==
    /\ TIdle
    /\ tcalls < MaxTCalls
    /\ tcalls' = tcalls + 1
    /\ tcall' = [NoCall EXCEPT !.kind = "resolve", !.pc = "select", !.arg = explicit]
    /\ tres' = NoTemplate
    /\ UNCHANGED <<tfs, tlist, tcache, tchanges>>
    /\ UNCHANGED <<wvars, rvars, pvars, fvars, cvars, hvars>>

\* mdToHtml: the three branches of `// Get template`
SelectNext(explicit) ==
    IF explicit # "none" /\ TExists(explicit)
    THEN [pc |-> "extract", cur |-> explicit]
    ELSE IF explicit # "none"
    THEN IF TExists(Named) THEN [pc |-> "extract", cur |-> Named]
                           ELSE [pc |-> "default", cur |-> "none"]
    ELSE [pc |-> "find", cur |-> "none"]

Select ==
    /\ tcall.pc = "select"
    /\ tcall' = [tcall EXCEPT !.pc = SelectNext(tcall.arg).pc,
                              !.cur = SelectNext(tcall.arg).cur]
    /\ UNCHANGED <<tfs, tlist, tcache, tres, tchanges, tcalls>>
    /\ UNCHANGED <<wvars, rvars, pvars, fvars, cvars, hvars>>

\* findTemplate taking the first listed *.html file whatever its name
FindTemplateFirstListed ==
    IF TExists(Canonical) THEN Canonical
    ELSE IF Len(HtmlFilesListed) > 0 THEN HtmlFilesListed[1]
    ELSE "none"

\* findTemplate: the path it extracts, or "none" when it returns null
FindTemplateChoice ==
    IF TExists(Canonical) THEN Canonical
    ELSE IF Len(HtmlFilesListed) > 0
    THEN IF FindTemplateFile(HtmlFilesListed) # "none"
         THEN FindTemplateFile(HtmlFilesListed)
         ELSE HtmlFilesListed[1]
    ELSE "none"

\* findTemplate(mdPath) || getDefaultTemplate()
Find ==
    /\ tcall.pc = "find"
    /\ tcall' = IF FindTemplateChoice # "none"
                THEN [tcall EXCEPT !.pc = "extract", !.cur = FindTemplateChoice]
                ELSE [tcall EXCEPT !.pc = "default"]
    /\ UNCHANGED <<tfs, tlist, tcache, tres, tchanges, tcalls>>
    /\ UNCHANGED <<wvars, rvars, pvars, fvars, cvars, hvars>>

\* extractTemplate: readFile and parse, templateCache.set, return; on an error
\* `return await this.getDefaultTemplate()`
Extract ==
    /\ tcall.pc = "extract"
    /\ IF TReadable(tcall.cur)
       THEN /\ tcache' = [tcache EXCEPT ![tcall.cur] = ExtractOf(tfs[tcall.cur])]
            /\ tres' = ExtractOf(tfs[tcall.cur])
            /\ tcall' = [tcall EXCEPT !.pc = "done", !.reads = 1]
       ELSE /\ tcall' = [tcall EXCEPT !.pc = "default", !.reads = 1]
            /\ UNCHANGED <<tcache, tres>>
    /\ UNCHANGED <<tfs, tlist, tchanges, tcalls>>
    /\ UNCHANGED <<wvars, rvars, pvars, fvars, cvars, hvars>>

\* getDefaultTemplate going straight to the hard-coded object
DefaultSkipsCanonical == FALSE

\* getDefaultTemplate: whether it tries src/template.html before the hard-coded one
DefaultTriesCanonical == TExists(Canonical)

\* getDefaultTemplate
Default ==
    /\ tcall.pc = "default"
    /\ IF DefaultTriesCanonical
       THEN /\ tcall' = [tcall EXCEPT !.pc = "extract", !.cur = Canonical]
            /\ UNCHANGED tres
       ELSE /\ tcall' = [tcall EXCEPT !.pc = "done"]
            /\ tres' = HardDefault
    /\ UNCHANGED <<tfs, tlist, tcache, tchanges, tcalls>>
    /\ UNCHANGED <<wvars, rvars, pvars, fvars, cvars, hvars>>

NextTemplate ==
    \/ \E p \in TPaths, v \in FileStates : FsChange(p, v)
    \/ \E p \in TPaths : CallExtract(p)
    \/ \E x \in {"none", Literal} : CallResolve(x)
    \/ Select
    \/ Find
    \/ Extract
    \/ Default


\* ============================================ renderer: TOC and document title

\* heading texts as marked renders them: inline tokens, some of them tags
TagTokens == {"<b>", "</b>"}
Texts == {<<"A">>, <<"<b>", "B", "</b>">>}
Levels == 1..6

\* text.replace(/<[^>]*>/g, '')
StripTags(text) == SelectSeq(text, LAMBDA x : x \notin TagTokens)

\* a JavaScript string as a token sequence ('' is the empty sequence)
Str(s) == IF s = "" THEN <<>> ELSE <<s>>

\* a counter that only the headings listed in the TOC advance
NextCounterTocOnly(level, counter) == IF level <= 3 THEN counter + 1 ELSE counter

\* generateTOC: `counter++` in the replace callback, run for every h2..h6 match
NextCounter(level, counter) == counter + 1

\* generateTOC: the replace callback over the headings of the fragment, in
\* document order; /<h([2-6])[^>]*>/ does not match an <h1>
RECURSIVE ScanHeadings(_, _, _)
ScanHeadings(frag, i, counter) ==
    IF i > Len(frag) THEN <<>>
    ELSE IF frag[i].level \in 2..6
    THEN <<[level |-> frag[i].level, text |-> frag[i].text, id |-> counter,
            back |-> frag[i].level = 2]>>
         \o ScanHeadings(frag, i + 1, NextCounter(frag[i].level, counter))
    ELSE <<[level |-> frag[i].level, text |-> frag[i].text, id |-> -1,
            back |-> FALSE]>>
         \o ScanHeadings(frag, i + 1, counter)

\* generateTOC: `if (levelNum <= 3) headings.push({level, text: cleanText, id})`
TocHeadings(proc) ==
    LET kept == SelectSeq(proc, LAMBDA h : h.id >= 0 /\ h.level <= 3)
    IN  [k \in 1..Len(kept) |->
            [level |-> kept[k].level, text |-> StripTags(kept[k].text), id |-> kept[k].id]]

\* the tokens of the TOC markup
UlOpen == [tag |-> "ul", level |-> 0, text |-> <<>>, id |-> -1]
UlClose == [tag |-> "/ul", level |-> 0, text |-> <<>>, id |-> -1]
Li(h) == [tag |-> "li", level |-> h.level, text |-> h.text, id |-> h.id]
Repeat(tok, n) == [k \in 1..n |-> tok]

\* generateTOC: `for (let i = 2; i <= currentLevel; i++) tocHtml += '</ul>'`
RemainingCloses(currentLevel) == currentLevel - 1

\* generateTOC: headings.forEach(...) and the closing loop after it
RECURSIVE TocBody(_, _, _)
TocBody(hs, i, currentLevel) ==
    IF i > Len(hs) THEN Repeat(UlClose, RemainingCloses(currentLevel))
    ELSE (IF hs[i].level > currentLevel
          THEN Repeat(UlOpen, hs[i].level - currentLevel)
          ELSE Repeat(UlClose, currentLevel - hs[i].level))
         \o <<Li(hs[i])>>
         \o TocBody(hs, i + 1, hs[i].level)

\* generateTOC: '' without headings, else the dropdown with its outer <ul> ... </ul>
TocHtml(hs) ==
    IF Len(hs) = 0 THEN <<>>
    ELSE <<UlOpen>> \o TocBody(hs, 1, 2) \o <<UlClose>>

\* generateTOC(content)
GenerateTOC(frag) ==
    LET proc == ScanHeadings(frag, 1, 0)
    IN  [content |-> proc, headings |-> TocHeadings(proc), toc |-> TocHtml(TocHeadings(proc))]

\* processedContent.match(/<h1[^>]*>(.*?)<\/h1>/): the first <h1>, 0 without one
FirstH1(proc) ==
    IF \E i \in 1..Len(proc) : proc[i].level = 1
    THEN CHOOSE i \in 1..Len(proc) :
            proc[i].level = 1 /\ \A j \in 1..(i - 1) : proc[j].level # 1
    ELSE 0

\* a title resolution that looks at the first <h1> before the metadata
ResolveTitleH1First(meta, proc, tplTitle) ==
    IF FirstH1(proc) # 0 THEN StripTags(proc[FirstH1(proc)].text)
    ELSE IF meta.hasTitle /\ meta.title # <<>> THEN meta.title
    ELSE IF tplTitle # <<>> THEN tplTitle
    ELSE <<"Generated Document">>

\* applyTemplate: the title of the document
ResolveTitle(meta, proc, tplTitle) ==
    IF meta.hasTitle /\ meta.title # <<>> THEN meta.title
    ELSE IF FirstH1(proc) # 0 THEN StripTags(proc[FirstH1(proc)].text)
    ELSE IF tplTitle # <<>> THEN tplTitle
    ELSE <<"Generated Document">>

\* the items of the container: heading i of the processed content, the TOC block
HeadingItem(i) == [kind |-> "h", pos |-> i]
TocItem == [kind |-> "toc", pos |-> 0]

\* a replace that puts the TOC after the last <h1>
TocAnchorLast(proc) ==
    IF \E i \in 1..Len(proc) : proc[i].level = 1
    THEN CHOOSE i \in 1..Len(proc) :
            proc[i].level = 1 /\ \A j \in (i + 1)..Len(proc) : proc[j].level # 1
    ELSE 0

\* applyTemplate: what the non-global /(<h1[^>]*>.*?<\/h1>)/ of the replace matches
TocAnchor(proc) == FirstH1(proc)

\* applyTemplate: `toc ? processedContent.replace(<h1>, `$1\n${toc}`) : processedContent`
InjectToc(proc, toc) ==
    LET body == [i \in 1..Len(proc) |-> HeadingItem(i)]
        k == TocAnchor(proc)
    IN  IF toc # <<>> /\ k # 0
        THEN SubSeq(body, 1, k) \o <<TocItem>> \o SubSeq(body, k + 1, Len(body))
        ELSE body

\* the metadata of the front matter: no title key, an empty one, or a title
Metas == {[hasTitle |-> FALSE, title |-> <<>>], [hasTitle |-> TRUE, title |-> <<>>],
          [hasTitle |-> TRUE, title |-> <<"Foo">>]}

\* the templates applyTemplate is given: the hard-coded one, an extracted one, and
\* a caller's template object without a title
RenderTemplates == {HardDefault, ExtractOf(Doc("T2", "")),
                    [from |-> "file", title |-> "", styles |-> ""]}

NoToc == [content |-> <<>>, headings |-> <<>>, toc |-> <<>>]
NoMeta == [hasTitle |-> FALSE, title |-> <<>>]

RenderInit ==
    /\ rfrag = <<>>
    /\ rpc = "input"
    /\ rmeta = NoMeta
    /\ rtpl = HardDefault
    /\ rtoc = NoToc
    /\ rtitle = <<>>
    /\ rbody = <<>>

\* marked renders one more heading of the Markdown body
AddHeading(level, text) ==
    /\ rpc = "input"
    /\ Len(rfrag) < MaxHeadings
    /\ rfrag' = Append(rfrag, [level |-> level, text |-> text])
    /\ UNCHANGED <<rpc, rmeta, rtpl, rtoc, rtitle, rbody>>
    /\ UNCHANGED <<wvars, tvars, pvars, fvars, cvars, hvars>>

\* applyTemplate(content, template, metadata)
ApplyTemplate(meta, tpl) ==
    /\ rpc = "input"
    /\ rpc' = "done"
    /\ rmeta' = meta
    /\ rtpl' = tpl
    /\ rtoc' = GenerateTOC(rfrag)
    /\ rtitle' = ResolveTitle(meta, GenerateTOC(rfrag).content, Str(tpl.title))
    /\ rbody' = InjectToc(GenerateTOC(rfrag).content, GenerateTOC(rfrag).toc)
    /\ UNCHANGED rfrag
    /\ UNCHANGED <<wvars, tvars, pvars, fvars, cvars, hvars>>

NextRender ==
    \/ \E level \in Levels, text \in Texts : AddHeading(level, text)
    \/ \E meta \in Metas, tpl \in RenderTemplates : ApplyTemplate(meta, tpl)


\* ====================================================================== mdToPdf

\* what a file of the Markdown file's directory holds: nothing, what it held
\* before the first call, or what a call wrote
Contents == {"absent", "old", "new"}

\* mdToPdf is not used in this run
PdfParked ==
    /\ ppc = "parked"
    /\ ptemp = "absent"
    /\ ppdf = "absent"
    /\ pbrowsers = 0
    /\ pmade = FALSE
    /\ pres = "none"
    /\ pcalls = 0

PdfInit ==
    /\ ppc = "idle"
    /\ ptemp \in {"absent", "old"}
    /\ ppdf \in {"absent", "old"}
    /\ pbrowsers = 0
    /\ pmade = FALSE
    /\ pres = "none"
    /\ pcalls = 0

\* mdToPdf: `catch (error) { throw new Error('MD to PDF conversion failed: ...') }`
\* reached from the operation at `at`
PdfThrow(at) ==
    /\ ppc' = "idle"
    /\ pres' = at

\* mdToPdf(mdPath) is called
PdfCall ==
    /\ ppc = "idle"
    /\ pcalls < MaxPdfCalls
    /\ pcalls' = pcalls + 1
    /\ ppc' = "html"
    /\ pmade' = FALSE
    /\ pres' = "none"
    /\ UNCHANGED <<ptemp, ppdf, pbrowsers>>
    /\ UNCHANGED <<wvars, tvars, rvars, fvars, cvars, hvars>>

\* `await this.mdToHtml(mdPath, templatePath, tempHtmlPath)`
PdfHtml ==
    /\ ppc = "html"
    /\ \E ok \in BOOLEAN :
         IF ok
         THEN /\ ptemp' = "new"
              /\ pmade' = TRUE
              /\ ppc' = "launch"
              /\ UNCHANGED pres
         ELSE /\ PdfThrow("html")
              /\ UNCHANGED <<ptemp, pmade>>
    /\ UNCHANGED <<ppdf, pbrowsers, pcalls>>
    /\ UNCHANGED <<wvars, tvars, rvars, fvars, cvars, hvars>>

\* `const browser = await puppeteer.launch(...)`
PdfLaunch ==
    /\ ppc = "launch"
    /\ \E ok \in BOOLEAN :
         IF ok
         THEN /\ pbrowsers' = pbrowsers + 1
              /\ ppc' = "page"
              /\ UNCHANGED pres
         ELSE /\ PdfThrow("launch")
              /\ UNCHANGED pbrowsers
    /\ UNCHANGED <<ptemp, ppdf, pmade, pcalls>>
    /\ UNCHANGED <<wvars, tvars, rvars, fvars, cvars, hvars>>

\* `browser.newPage()`, `fs.readFile(tempHtmlPath)`, `page.setContent(...)`
PdfRender ==
    /\ ppc \in {"page", "load", "content"}
    /\ \E ok \in BOOLEAN :
         IF ok
         THEN /\ ppc' = CASE ppc = "page" -> "load"
                          [] ppc = "load" -> "content"
                          [] ppc = "content" -> "print"
              /\ UNCHANGED pres
         ELSE PdfThrow(ppc)
    /\ UNCHANGED <<ptemp, ppdf, pbrowsers, pmade, pcalls>>
    /\ UNCHANGED <<wvars, tvars, rvars, fvars, cvars, hvars>>

\* `await page.pdf({ path: outputPath, ... })`
PdfPrint ==
    /\ ppc = "print"
    /\ \E ok \in BOOLEAN :
         IF ok
         THEN /\ ppdf' = "new"
              /\ ppc' = "close"
              /\ UNCHANGED pres
         ELSE /\ PdfThrow("print")
              /\ UNCHANGED ppdf
    /\ UNCHANGED <<ptemp, pbrowsers, pmade, pcalls>>
    /\ UNCHANGED <<wvars, tvars, rvars, fvars, cvars, hvars>>

\* `await browser.close()`
PdfClose ==
    /\ ppc = "close"
    /\ \E ok \in BOOLEAN :
         IF ok
         THEN /\ pbrowsers' = pbrowsers - 1
              /\ ppc' = "remove"
              /\ UNCHANGED pres
         ELSE /\ PdfThrow("close")
              /\ UNCHANGED pbrowsers
    /\ UNCHANGED <<ptemp, ppdf, pmade, pcalls>>
    /\ UNCHANGED <<wvars, tvars, rvars, fvars, cvars, hvars>>

\* `await fs.remove(tempHtmlPath)`, then `return outputPath`
PdfRemove ==
    /\ ppc = "remove"
    /\ \E ok \in BOOLEAN :
         IF ok
         THEN /\ ptemp' = "absent"
              /\ ppc' = "idle"
              /\ pres' = "ok"
         ELSE /\ PdfThrow("remove")
              /\ UNCHANGED ptemp
    /\ UNCHANGED <<ppdf, pbrowsers, pmade, pcalls>>
    /\ UNCHANGED <<wvars, tvars, rvars, fvars, cvars, hvars>>

NextPdf ==
    \/ PdfCall
    \/ PdfHtml
    \/ PdfLaunch
    \/ PdfRender
    \/ PdfPrint
    \/ PdfClose
    \/ PdfRemove

\* ================================================================= front matter

\* the text of a Markdown file as a sequence of tokens: a run of three dashes,
\* a line break, a colon, a blank, words
Dashes == "---"
Newline == "\n"
Colon == ":"
Blank == " "

\* the lines a front-matter block is written from
FmLines ==
    { <<"title", Colon, Blank, "Foo">>,
      <<"lang", Colon, "en">>,
      <<"time", Colon, "10", Colon, "30">>,
      <<"title", Colon, "a", Dashes, "b">>,
      <<"note">> }

\* the Markdown texts written after the block
FmBodies ==
    { <<>>, <<"#", Blank, "Bar">>, <<"x", Newline, Dashes, Newline, "y">> }

RECURSIVE JoinLines(_)
JoinLines(lines) ==
    IF lines = <<>> THEN <<>>
    ELSE Head(lines) \o <<Newline>> \o JoinLines(Tail(lines))

\* the file: "---\n" line "\n" ... "---" "\n" body
FileText(lines, body) ==
    <<Dashes, Newline>> \o JoinLines(lines) \o <<Dashes, Newline>> \o body

\* markdownContent.startsWith('---')
StartsWithDashes(md) == Len(md) >= 1 /\ md[1] = Dashes

\* markdownContent.indexOf('---', 3): the first run of dashes after the opening
\* one, wherever it stands; 0 when there is none
IndexOfDashes(md) ==
    IF \E j \in 2..Len(md) : md[j] = Dashes
    THEN CHOOSE j \in 2..Len(md) :
            md[j] = Dashes /\ \A k \in 2..(j - 1) : md[k] # Dashes
    ELSE 0

\* String.prototype.split(sep)
RECURSIVE SplitOn(_, _)
SplitOn(str, sep) ==
    IF \E j \in 1..Len(str) : str[j] = sep
    THEN LET j == CHOOSE j \in 1..Len(str) :
                    str[j] = sep /\ \A k \in 1..(j - 1) : str[k] # sep
         IN  <<SubSeq(str, 1, j - 1)>> \o SplitOn(SubSeq(str, j + 1, Len(str)), sep)
    ELSE <<str>>

\* Array.prototype.join(sep)
RECURSIVE JoinWith(_, _)
JoinWith(parts, sep) ==
    IF Len(parts) = 0 THEN <<>>
    ELSE IF Len(parts) = 1 THEN parts[1]
    ELSE parts[1] \o <<sep>> \o JoinWith(Tail(parts), sep)

\* String.prototype.trim()
RECURSIVE Trim(_)
Trim(str) ==
    IF str = <<>> THEN <<>>
    ELSE IF Head(str) \in {Blank, Newline} THEN Trim(Tail(str))
    ELSE IF str[Len(str)] \in {Blank, Newline} THEN Trim(SubSeq(str, 1, Len(str) - 1))
    ELSE str

\* metadata[key] = value
SetKey(meta, key, value) ==
    {e \in meta : e.key # key} \cup {[key |-> key, value |-> value]}

\* mdToHtml: the forEach callback on one line of the metadata text
ParseLine(meta, line) ==
    LET parts == SplitOn(line, Colon)
    IN  IF parts[1] # <<>> /\ Len(parts) > 1
        THEN SetKey(meta, Trim(parts[1]), Trim(JoinWith(Tail(parts), Colon)))
        ELSE meta

RECURSIVE ParseLines(_, _)
ParseLines(meta, lines) ==
    IF lines = <<>> THEN meta
    ELSE ParseLines(ParseLine(meta, Head(lines)), Tail(lines))

\* mdToHtml: `// Extract metadata if present`
ParseFrontMatter(md) ==
    IF StartsWithDashes(md) /\ IndexOfDashes(md) > 0
    THEN [metadata |-> ParseLines({}, SplitOn(SubSeq(md, 2, IndexOfDashes(md) - 1), Newline)),
          content |-> Trim(SubSeq(md, IndexOfDashes(md) + 1, Len(md)))]
    ELSE [metadata |-> {}, content |-> md]

\* no Markdown file is parsed in this run
FrontMatterParked ==
    /\ flines = <<>>
    /\ fbody = <<>>
    /\ fpc = "parked"
    /\ fmeta = {}
    /\ fout = <<>>

FrontMatterInit ==
    /\ flines = <<>>
    /\ fbody = <<>>
    /\ fpc = "input"
    /\ fmeta = {}
    /\ fout = <<>>

\* the author writes one more line of the block
AddLine(line) ==
    /\ fpc = "input"
    /\ Len(flines) < MaxFmLines
    /\ flines' = Append(flines, line)
    /\ UNCHANGED <<fbody, fpc, fmeta, fout>>
    /\ UNCHANGED <<wvars, tvars, rvars, pvars, cvars, hvars>>

\* the author closes the block and writes the text after it
WriteBody(body) ==
    /\ fpc = "input"
    /\ fpc' = "written"
    /\ fbody' = body
    /\ UNCHANGED <<flines, fmeta, fout>>
    /\ UNCHANGED <<wvars, tvars, rvars, pvars, cvars, hvars>>

\* mdToHtml reads the file and extracts the metadata
ReadFrontMatter ==
    /\ fpc = "written"
    /\ fpc' = "done"
    /\ fmeta' = ParseFrontMatter(FileText(flines, fbody)).metadata
    /\ fout' = ParseFrontMatter(FileText(flines, fbody)).content
    /\ UNCHANGED <<flines, fbody>>
    /\ UNCHANGED <<wvars, tvars, rvars, pvars, cvars, hvars>>

NextFrontMatter ==
    \/ \E line \in FmLines : AddLine(line)
    \/ \E body \in FmBodies : WriteBody(body)
    \/ ReadFrontMatter

\* ============================= mdToHtml run again on an unchanged Markdown file

\* the children of <head>: a <meta>, the <title>, a <style> with its rule sets
MetaEl == [el |-> "meta", text |-> "", css |-> <<>>]
TitleEl(t) == [el |-> "title", text |-> t, css |-> <<>>]
StyleEl(c) == [el |-> "style", text |-> "", css |-> c]

\* what an .html path holds: nothing, or a document with these <head> children
NoPage == [st |-> "absent", head |-> <<>>]
Page(head) == [st |-> "ok", head |-> head]

\* $('title').text()
TitleText(page) ==
    IF \E i \in 1..Len(page.head) : page.head[i].el = "title"
    THEN page.head[CHOOSE i \in 1..Len(page.head) :
                      /\ page.head[i].el = "title"
                      /\ \A j \in 1..(i - 1) : page.head[j].el # "title"].text
    ELSE ""

\* $('style').html(): the content of the first <style> element
FirstStyle(page) ==
    IF \E i \in 1..Len(page.head) : page.head[i].el = "style"
    THEN page.head[CHOOSE i \in 1..Len(page.head) :
                      /\ page.head[i].el = "style"
                      /\ \A j \in 1..(i - 1) : page.head[j].el # "style"].css
    ELSE <<>>

\* extractTemplate: head is <head> without its <title>, `$('title').text() ||
\* 'Generated Document'`, `$('style').html() || ''`
ExtractPage(page) ==
    [head |-> SelectSeq(page.head, LAMBDA e : e.el # "title"),
     title |-> IF TitleText(page) = "" THEN "Generated Document" ELSE TitleText(page),
     styles |-> FirstStyle(page)]

\* getDefaultTemplate: the hard-coded object
BuiltinTemplate ==
    [head |-> <<MetaEl>>, title |-> "Generated Document", styles |-> <<"builtin">>]

NoPageTemplate == [head |-> <<>>, title |-> "", styles |-> <<>>]

\* applyTemplate: the title, then `${template.head} <title> ${styles}` with
\* `allStyles = template.styles + tocStyles`
AssemblePage(tpl, mdTitle) ==
    LET title == IF mdTitle # "" THEN mdTitle
                 ELSE IF tpl.title # "" THEN tpl.title ELSE "Generated Document"
    IN  Page(tpl.head \o <<TitleEl(title), StyleEl(tpl.styles \o <<"toc">>)>>)

\* `findTemplate(mdPath) || getDefaultTemplate()` when the only *.html file the
\* directory of the Markdown file can hold is the output file
FindTemplateOf(canon, out) ==
    IF canon.st = "ok" THEN ExtractPage(canon)
    ELSE IF out.st = "ok" THEN ExtractPage(out)
    ELSE BuiltinTemplate

\* a writeFile that fails after it has truncated the file
WriteRejectedTruncates(old) == Page(<<>>)

\* fs.writeFile rejected before any byte is written: the file is as it was
WriteRejected(old) == old

\* mdToHtml is not called directly in this run
MdToHtmlParked ==
    /\ hcanon = NoPage
    /\ hout = NoPage
    /\ htitle = ""
    /\ hpc = "parked"
    /\ htpl = NoPageTemplate
    /\ hbefore = NoPage
    /\ hlog = <<>>
    /\ hres = "none"
    /\ hruns = 0

MdToHtmlInit ==
    /\ hcanon \in {NoPage, Page(<<MetaEl>>),
                   Page(<<MetaEl, TitleEl("T"), StyleEl(<<"s1">>)>>)}
    /\ hout \in {NoPage, Page(<<TitleEl("Old")>>)}
    /\ htitle \in {"", "Foo"}
    /\ hpc = "idle"
    /\ htpl = NoPageTemplate
    /\ hbefore = NoPage
    /\ hlog = <<>>
    /\ hres = "none"
    /\ hruns = 0

\* mdToHtml: `catch (error) { throw new Error('MD to HTML conversion failed: ...') }`
MdThrow ==
    /\ hpc' = "idle"
    /\ hres' = "MD to HTML conversion failed: "

\* mdToHtml(mdPath) is called, with no template argument
MdCall ==
    /\ hpc = "idle"
    /\ hruns < MaxRuns
    /\ hruns' = hruns + 1
    /\ hpc' = "read"
    /\ hbefore' = hout
    /\ htpl' = NoPageTemplate
    /\ hres' = "none"
    /\ UNCHANGED <<hcanon, hout, htitle, hlog>>
    /\ UNCHANGED <<wvars, tvars, rvars, pvars, fvars, cvars>>

\* `await fs.readFile(mdPath, 'utf8')`
MdRead ==
    /\ hpc = "read"
    /\ \E ok \in BOOLEAN :
         IF ok THEN hpc' = "find" /\ UNCHANGED hres
               ELSE MdThrow
    /\ UNCHANGED <<hcanon, hout, htitle, htpl, hbefore, hlog, hruns>>
    /\ UNCHANGED <<wvars, tvars, rvars, pvars, fvars, cvars>>

\* `template = await this.findTemplate(mdPath) || await this.getDefaultTemplate()`
MdFindTemplate ==
    /\ hpc = "find"
    /\ hpc' = "render"
    /\ htpl' = FindTemplateOf(hcanon, hout)
    /\ UNCHANGED <<hcanon, hout, htitle, hbefore, hlog, hres, hruns>>
    /\ UNCHANGED <<wvars, tvars, rvars, pvars, fvars, cvars>>

\* `marked(markdownContent, { renderer })`, which may throw
MdRender ==
    /\ hpc = "render"
    /\ \E ok \in BOOLEAN :
         IF ok THEN hpc' = "write" /\ UNCHANGED hres
               ELSE MdThrow
    /\ UNCHANGED <<hcanon, hout, htitle, htpl, hbefore, hlog, hruns>>
    /\ UNCHANGED <<wvars, tvars, rvars, pvars, fvars, cvars>>

\* applyTemplate and `await fs.writeFile(outputPath, finalHtml)`
MdWrite ==
    /\ hpc = "write"
    /\ \E ok \in BOOLEAN :
         IF ok
         THEN /\ hout' = AssemblePage(htpl, htitle)
              /\ hlog' = Append(hlog, AssemblePage(htpl, htitle))
              /\ hpc' = "idle"
              /\ hres' = "ok"
         ELSE /\ hout' = WriteRejected(hout)
              /\ MdThrow
              /\ UNCHANGED hlog
    /\ UNCHANGED <<hcanon, htitle, htpl, hbefore, hruns>>
    /\ UNCHANGED <<wvars, tvars, rvars, pvars, fvars, cvars>>

NextMdToHtml ==
    \/ MdCall
    \/ MdRead
    \/ MdFindTemplate
    \/ MdRender
    \/ MdWrite

\* ============================================ the watch / watch-dir commands

\* the signals that end a session
Signals == {"SIGINT", "SIGTERM"}

\* the process runs its event loop: it was not killed and did not crash
Alive == process \in {"running", "stopped"}

\* `md2web watch <input>`: the action calls watcher.watchMarkdown once
CliWatch(md) ==
    /\ process = "running"
    /\ calls = 0
    /\ WatchMarkdown(md)

\* `md2web watch-dir <directory>`: the action calls watcher.watchDirectory once
CliWatchDir ==
    /\ process = "running"
    /\ calls = 0
    /\ WatchDirectory

\* chokidar delivers an event to the running process
CliDeliver(e) ==
    /\ Alive
    /\ Deliver(e)

\* the event loop runs a continuation that is ready
CliStep(t) ==
    /\ Alive
    /\ TaskStep(t)

\* process.on(sig, ...): watchMarkdown installs a listener for SIGINT and SIGTERM
\* once watchFile has returned, the watch-dir action one for SIGINT only, once
\* watchDirectory has returned
SigHandled(sig) ==
    /\ handles # <<>>
    /\ \/ handles[1].kind = "file"
       \/ handles[1].kind = "dir" /\ sig = "SIGINT"

\* a signal reaches the process: its listener calls stopAll() and resolves the
\* promise that kept the command alive; without a listener the signal ends the
\* process at once
Signal(sig) ==
    /\ process = "running"
    /\ IF SigHandled(sig)
       THEN /\ StopAllReg
            /\ process' = "stopped"
       ELSE /\ process' = "killed"
            /\ UNCHANGED <<watchers, handles, pending>>
    /\ UNCHANGED <<syncing, tasks, mtime, unread, edits, calls, universe, options>>
    /\ UNCHANGED <<tvars, rvars, pvars, fvars, hvars>>

\* watcher.on('error', ...): watchFile registers a listener, watchDirectory none
HasErrorListener(h) == h.kind = "file"

\* the chokidar watcher h emits 'error': a listener logs it; an 'error' event
\* without a listener is thrown by the emitter and ends the process
ErrorEvent(h) ==
    /\ process = "running"
    /\ h \in HandleIds
    /\ handles[h].open
    /\ process' = IF HasErrorListener(handles[h]) THEN process ELSE "crashed"
    /\ UNCHANGED wvars
    /\ UNCHANGED <<tvars, rvars, pvars, fvars, hvars>>

NextCli ==
    \/ \E md \in MdFiles \cap universe : CliWatch(md)
    \/ CliWatchDir
    \/ \E f \in universe : ExternalWrite(f)
    \/ \E e \in pending : CliDeliver(e)
    \/ \E t \in TaskIds : CliStep(t)
    \/ \E sig \in Signals : Signal(sig)
    \/ \E h \in HandleIds : ErrorEvent(h)

\* ===================================================================== specs

\* no watcher is used in this run
WatchParked ==
    /\ watchers = [p \in WatchPaths |-> 0]
    /\ handles = <<>>
    /\ syncing = FALSE
    /\ tasks = [t \in TaskIds |-> NoTask]
    /\ pending = {}
    /\ universe = {}
    /\ mtime = [f \in Files |-> 0]
    /\ unread = {}
    /\ options = [convertExisting |-> FALSE, force |-> FALSE]
    /\ edits = 0
    /\ calls = 0

\* the process around the FileWatcher is not part of this run
ProcessParked == process = "parked"

\* nothing is rendered in this run
RenderParked ==
    /\ rfrag = <<>>
    /\ rpc = "parked"
    /\ rmeta = NoMeta
    /\ rtpl = HardDefault
    /\ rtoc = NoToc
    /\ rtitle = <<>>
    /\ rbody = <<>>

\* one FileWatcher, its callers, chokidar and an editor
InitWatch == WatchInit /\ TemplateParked /\ RenderParked /\ PdfParked /\ FrontMatterParked /\ ProcessParked /\ MdToHtmlParked

Spec == InitWatch /\ [][NextWatch]_vars

\* the event loop runs every continuation that is ready, and chokidar delivers
\* the events it holds; nothing obliges the user to edit or to call the API
SpecFair ==
    /\ Spec
    /\ \A t \in TaskIds : WF_vars(TaskStep(t))
    /\ WF_vars(\E e \in pending : Deliver(e))

\* one md2web process running the watch or the watch-dir command
InitCli ==
    /\ WatchInit /\ process = "running"
    /\ TemplateParked /\ RenderParked /\ PdfParked /\ FrontMatterParked
    /\ MdToHtmlParked

SpecCli == InitCli /\ [][NextCli]_vars

\* mdToHtml called again and again on one unchanged Markdown file
InitMdToHtml ==
    /\ MdToHtmlInit /\ WatchParked /\ TemplateParked /\ RenderParked /\ PdfParked
    /\ FrontMatterParked /\ ProcessParked

SpecMdToHtml == InitMdToHtml /\ [][NextMdToHtml]_vars

\* one Converter resolving and extracting templates
InitTemplate == TemplateInit /\ WatchParked /\ RenderParked /\ PdfParked /\ FrontMatterParked /\ ProcessParked /\ MdToHtmlParked

SpecTemplate == InitTemplate /\ [][NextTemplate]_vars

\* the event loop runs the continuation of every file operation that completed
SpecTemplateFair ==
    /\ SpecTemplate
    /\ WF_vars(Select)
    /\ WF_vars(Find)
    /\ WF_vars(Extract)
    /\ WF_vars(Default)

\* applyTemplate on the fragments marked can render
InitRender == RenderInit /\ WatchParked /\ TemplateParked /\ PdfParked /\ FrontMatterParked /\ ProcessParked /\ MdToHtmlParked

SpecRender == InitRender /\ [][NextRender]_vars

\* mdToPdf called on one Markdown file
InitPdf == PdfInit /\ WatchParked /\ TemplateParked /\ RenderParked /\ FrontMatterParked /\ ProcessParked /\ MdToHtmlParked

SpecPdf == InitPdf /\ [][NextPdf]_vars

\* mdToHtml parsing the front matter of one Markdown file
InitFrontMatter ==
    FrontMatterInit /\ WatchParked /\ TemplateParked /\ RenderParked /\ PdfParked
        /\ ProcessParked /\ MdToHtmlParked

SpecFrontMatter == InitFrontMatter /\ [][NextFrontMatter]_vars


\* ------------------------------------------------------------------ claims

\* a conversion (mdToHtml) has been called and has not returned
Converting(t) == tasks[t].pc \in {"read", "write"}

HandlerTask(t) == tasks[t].kind \in {"file", "dir"}

\* C1 as stated: at most one conversion of the instance is in flight, the initial
\* conversion of watchMarkdown included.
C1_Original == Cardinality({t \in TaskIds : Converting(t)}) <= 1

\* C1 amended: at most one conversion started by a change or add handler is in
\* flight; the initial conversion of watchMarkdown does not test the flag.
C1_Amended == Cardinality({t \in TaskIds : HandlerTask(t) /\ Converting(t)}) <= 1

\* a handler's conversion is in flight while an event of another watcher waits
C1_Witness ==
    \E t \in TaskIds, e \in pending :
        /\ HandlerTask(t) /\ Converting(t) /\ syncing
        /\ handles[e.h].kind # tasks[t].kind

\* C2 as stated: without force, a directory-watch conversion never overwrites a
\* counterpart that is, when it is overwritten, strictly newer than the source.
C2_Original ==
    [][\A t \in TaskIds :
          (/\ tasks[t].kind = "dir" /\ ~tasks[t].force
           /\ tasks[t].pc = "write" /\ tasks'[t].pc = "fin"
           /\ PathExists(tasks[t].tgt))
          => mtime[tasks[t].tgt] <= mtime[tasks[t].src]]_vars

\* a change event of the watched Markdown file is held for its file watcher
ChangePending(md) ==
    \E e \in pending : e.file = md /\ handles[e.h].kind = "file"

Delivered(e) ==
    /\ e \in pending
    /\ e \notin pending'
    /\ watchers'[handles[e.h].path] = e.h

C4_Original ==
    \A p \in WatchPaths :
        Cardinality({i \in HandleIds : handles[i].path = p /\ handles[i].open})
            = IF watchers[p] # 0 THEN 1 ELSE 0

\* ------------------------------------------------------------------ C5
\* an extractTemplate call that has returned
ExtractDone == tcall.kind = "extract" /\ tcall.pc = "done"

\* C5: once extract(p) has succeeded, a later extract(p) returns the cached
\* Template and does not read the file again, whatever became of the file.
C5_Original ==
    (ExtractDone /\ tcall.cached # NoTemplate) =>
        (tres = tcall.cached /\ tcall.reads = 0)

\* ------------------------------------------------------------------ C6
\* an extractTemplate call on a missing, unreadable or unparsable file has returned
ExtractFellBack == ExtractDone /\ ~TReadable(tcall.arg)

\* C6 as stated: extractTemplate on a file that is missing, unreadable or
\* unparsable returns the hard-coded Default Template.
C6_Original == ExtractFellBack => tres = HardDefault

\* C6 amended: extractTemplate on such a file returns what getDefaultTemplate
\* returns: the template extracted from src/template.html if that file exists,
\* and the hard-coded Default Template only if it does not.
C6_Amended ==
    ExtractFellBack =>
        tres = IF TExists(Canonical) THEN ExtractOf(tfs[Canonical]) ELSE HardDefault

\* a failed extraction answered from src/template.html
C6_Witness ==
    /\ ExtractFellBack
    /\ TExists(Canonical)
    /\ tres = ExtractOf(tfs[Canonical])
    /\ tres # HardDefault

\* ------------------------------------------------------------------ C7
\* a template selection of mdToHtml that has returned
ResolveDone == tcall.kind = "resolve" /\ tcall.pc = "done"

\* the Default Template of the resolver: getDefaultTemplate's result
DefaultResult == IF TExists(Canonical) THEN ExtractOf(tfs[Canonical]) ELSE HardDefault

\* extraction of p as the resolver sees it: p's template, or the default when p
\* cannot be read or parsed
Extracted(p) == IF TReadable(p) THEN ExtractOf(tfs[p]) ELSE DefaultResult

\* the *.html files of the Markdown file's directory
DirHtmlPresent == {p \in DirHtml : TExists(p)}

\* the first of them in the listing
FirstListed == tlist[CHOOSE i \in 1..Len(tlist) :
                        /\ TExists(tlist[i])
                        /\ \A j \in 1..(i - 1) : ~TExists(tlist[j])]

\* C7: template resolution follows the priority: (1) an existing explicit path;
\* (2) else <name>.html next to the Markdown file, else the default; (3) without
\* an explicit template the canonical one; (4) else an *.html file of the
\* directory, one named "template" before the first listed; (5) else the default.
C7_Priority ==
    ResolveDone =>
        IF tcall.arg # "none"
        THEN IF TExists(tcall.arg) THEN tres = Extracted(tcall.arg)
             ELSE IF TExists(Named) THEN tres = Extracted(Named)
             ELSE tres = DefaultResult
        ELSE IF TExists(Canonical) THEN tres = Extracted(Canonical)
        ELSE IF \E p \in DirHtmlPresent : NameHasTemplate(p)
             THEN \E p \in DirHtmlPresent : NameHasTemplate(p) /\ tres = Extracted(p)
        ELSE IF DirHtmlPresent # {} THEN tres = Extracted(FirstListed)
        ELSE tres = DefaultResult

\* the directory scan passes over the first listed file for the one named template
C7_Witness ==
    /\ ResolveDone
    /\ tcall.arg = "none"
    /\ ~TExists(Canonical)
    /\ TReadable(Templ)
    /\ TReadable(FirstListed)
    /\ FirstListed # Templ
    /\ tres = ExtractOf(tfs[Templ])
    /\ tres # ExtractOf(tfs[FirstListed])

\* ------------------------------------------------------------------ C8
RenderDone == rpc = "done"

\* the first level-1 heading of the fragment, 0 without one
FirstLevel1 ==
    IF \E i \in 1..Len(rfrag) : rfrag[i].level = 1
    THEN CHOOSE i \in 1..Len(rfrag) :
            rfrag[i].level = 1 /\ \A j \in 1..(i - 1) : rfrag[j].level # 1
    ELSE 0

\* C8: the title is the metadata title if present; otherwise the tag-stripped
\* text of the first <h1>; otherwise the template's title; otherwise the literal
\* "Generated Document"; a metadata title wins over an <h1>.
C8_TitleOrder ==
    RenderDone =>
        /\ (rmeta.hasTitle /\ rmeta.title # <<>>) => rtitle = rmeta.title
        /\ (~(rmeta.hasTitle /\ rmeta.title # <<>>) /\ FirstLevel1 # 0) =>
                /\ rtitle = StripTags(rfrag[FirstLevel1].text)
                /\ \A k \in 1..Len(rtitle) : rtitle[k] \notin TagTokens
        /\ (~(rmeta.hasTitle /\ rmeta.title # <<>>) /\ FirstLevel1 = 0) =>
                rtitle = IF rtpl.title # "" THEN <<rtpl.title>>
                         ELSE <<"Generated Document">>

\* a metadata title set over an <h1> with another text
C8_Witness ==
    /\ RenderDone
    /\ rmeta.hasTitle
    /\ rmeta.title # <<>>
    /\ FirstLevel1 # 0
    /\ rtitle = rmeta.title
    /\ rtitle # StripTags(rfrag[FirstLevel1].text)

\* ------------------------------------------------------------------ C9
\* the positions of the level-2..6 headings of the fragment before position i
Level26Before(i) == {j \in 1..(i - 1) : rfrag[j].level \in 2..6}

\* the positions of the fragment that the TOC lists
TocPositions == {i \in 1..Len(rfrag) : rfrag[i].level \in 2..3}

\* C9: ids heading-0, heading-1, ... go to the level-2..6 headings in document
\* order whatever their level, and the TOC lists exactly the level-2 and level-3
\* headings, in document order, each with its id.
C9_IdsAndToc ==
    RenderDone =>
        /\ Len(rtoc.content) = Len(rfrag)
        /\ \A i \in 1..Len(rfrag) :
                rfrag[i].level \in 2..6 =>
                    rtoc.content[i].id = Cardinality(Level26Before(i))
        /\ Len(rtoc.headings) = Cardinality(TocPositions)
        /\ \A i \in TocPositions :
                LET k == Cardinality({j \in TocPositions : j <= i})
                IN  /\ rtoc.headings[k].id = rtoc.content[i].id
                    /\ rtoc.headings[k].level = rfrag[i].level
                    /\ rtoc.headings[k].text = StripTags(rfrag[i].text)

\* a level-4 heading took an id, so the TOC entry after it does not carry its rank
C9_Witness ==
    /\ RenderDone
    /\ Len(rfrag) = 3
    /\ rfrag[1].level = 2
    /\ rfrag[2].level = 4
    /\ rfrag[3].level = 3
    /\ Len(rtoc.headings) = 2
    /\ rtoc.headings[2].id = 2

\* ------------------------------------------------------------------ C10
CountTag(toks, tag) == Cardinality({k \in 1..Len(toks) : toks[k].tag = tag})

\* the list nesting depth at position k of the markup
DepthAt(toks, k) ==
    Cardinality({j \in 1..(k - 1) : toks[j].tag = "ul"})
        - Cardinality({j \in 1..(k - 1) : toks[j].tag = "/ul"})

\* C10: the TOC markup of a non-empty heading sequence is balanced (as many <ul>
\* as </ul>) and each entry sits at nesting depth heading level minus 1.
C10_Original ==
    (RenderDone /\ Len(rtoc.headings) > 0) =>
        /\ CountTag(rtoc.toc, "ul") = CountTag(rtoc.toc, "/ul")
        /\ \A k \in 1..Len(rtoc.toc) :
                rtoc.toc[k].tag = "li" => DepthAt(rtoc.toc, k) = rtoc.toc[k].level - 1

\* the depth half of C10, which the markup does satisfy
C10_DepthOnly ==
    (RenderDone /\ Len(rtoc.headings) > 0) =>
        \A k \in 1..Len(rtoc.toc) :
            rtoc.toc[k].tag = "li" => DepthAt(rtoc.toc, k) = rtoc.toc[k].level - 1

\* the markup closes one list more than it opened
C10_OneCloseTooMany ==
    (RenderDone /\ Len(rtoc.headings) > 0) =>
        CountTag(rtoc.toc, "/ul") = CountTag(rtoc.toc, "ul") + 1

\* ------------------------------------------------------------------ C11
\* the positions of the container at which the TOC block stands
TocAt == {k \in 1..Len(rbody) : rbody[k].kind = "toc"}

\* C11: a non-empty TOC is injected exactly once, immediately after the first
\* level-1 heading (never after a later one); without a level-1 heading, or with
\* an empty TOC, the TOC markup stands nowhere in the output.
C11_TocInjection ==
    RenderDone =>
        /\ (rtoc.toc # <<>> /\ FirstLevel1 # 0) =>
                /\ TocAt = {FirstLevel1 + 1}
                /\ rbody[FirstLevel1] = HeadingItem(FirstLevel1)
        /\ (rtoc.toc = <<>> \/ FirstLevel1 = 0) => TocAt = {}
        /\ \A i \in 1..Len(rfrag) :
                \E k \in 1..Len(rbody) : rbody[k] = HeadingItem(i)

\* two level-1 headings and a TOC: the TOC stands after the first of them only
C11_Witness ==
    /\ RenderDone
    /\ Len(rfrag) = 3
    /\ rfrag[1].level = 1
    /\ rfrag[2].level = 2
    /\ rfrag[3].level = 1
    /\ TocAt = {2}

\* ------------------------------------------------------------------ C12
\* the files that exist and the order of their modification times are the same
\* before and after the step: no file was written
NoFileWritten ==
    \A f, g \in Files :
        /\ PathExists(f) <=> (mtime'[f] > 0)
        /\ (mtime[f] <= mtime[g]) <=> (mtime'[f] <= mtime'[g])

\* handleFileChange is about to call sync for the source of task t
SyncCalled(t) ==
    /\ tasks[t].kind = "dir"
    /\ tasks[t].pc = "cmp"
    /\ tasks'[t].pc # "cmp"
    /\ ~TargetIsCurrent(tasks[t])

CounterpartStale(t) ==
    /\ tasks[t].kind = "dir"
    /\ tasks[t].pc = "cmp"
    /\ tasks'[t].pc # "cmp"
    /\ (~PathExists(tasks[t].tgt) \/ mtime[tasks[t].tgt] < tasks[t].srcM)

\* C13 as stated: in directory-watch mode a changed file whose counterpart is
\* missing or strictly older has the counterpart regenerated from it, an .html
\* source as well as an .md source.
C13_Original ==
    [][\A t \in TaskIds : CounterpartStale(t) => tasks'[t].pc = "read"]_vars

\* ------------------------------------------------------------------ C14
\* no file has been written since the FileWatcher was made
NoWriteYet == edits = 0 /\ ~PathExists("a.html")

\* C14: with convertExisting unset, registering a directory watch converts nothing
\* for the files that exist already: until a file-system event occurs no event is
\* held and no handler runs.
C14_NoInitialScan ==
    (~options.convertExisting /\ NoWriteYet) =>
        /\ pending = {}
        /\ \A t \in TaskIds : tasks[t].kind # "dir"
        /\ ~syncing

\* the directory with a.md in it is watched and nothing has happened
C14_Witness ==
    /\ ~options.convertExisting
    /\ NoWriteYet
    /\ watchers[DirPath] # 0
    /\ handles[watchers[DirPath]].open
    /\ PathExists("a.md")

\* ------------------------------------------------------------------ C15
\* the .html counterpart of md is missing or strictly older than md
Stale(md) ==
    ~PathExists(SwapExt(md)) \/ mtime[SwapExt(md)] < mtime[md]

\* the initial scan of a directory watch has reported md, which exists, and the
\* report waits for its add handler
ScanReported(md) ==
    \E e \in pending :
        /\ e.ev = "add"
        /\ e.file = md
        /\ handles[e.h].kind = "dir"
        /\ handles[e.h].convertExisting

\* a directory watch was stopped, or a conversion ended with an error
StoppedOrFailed ==
    \/ \E i \in HandleIds : handles[i].kind = "dir" /\ ~handles[i].open
    \/ \E t \in TaskIds : tasks[t].err = "failed"

\* C15 as stated: with convertExisting, every .md file that exists when the watch
\* starts and whose .html counterpart is missing or strictly older is eventually
\* converted (unless the watch is stopped or the conversion fails).
C15_Original ==
    \A md \in MdFiles :
        (ScanReported(md) /\ Stale(md)) ~> (~Stale(md) \/ StoppedOrFailed)

\* ------------------------------------------------------------------ C16
\* the conversion of handler task t fails in this step
FailsNow(t) ==
    /\ HandlerTask(t)
    /\ tasks[t].err = "none"
    /\ tasks'[t].err = "failed"

\* the handler of task t returns in this step
Returns(t) == HandlerTask(t) /\ tasks'[t].kind = "free"

\* C16: a conversion error in a handler is caught: the failing step and the
\* handler's return leave every watcher registered and open, the handler returns
\* through its finally block with syncing cleared, and an event delivered while
\* syncing is false starts a handler again.
C16_ErrorsCaught ==
    [][/\ \A t \in TaskIds :
            /\ FailsNow(t) =>
                  /\ tasks'[t].pc = "fin"
                  /\ tasks'[t].kind = tasks[t].kind
                  /\ watchers' = watchers
                  /\ handles' = handles
            /\ Returns(t) =>
                  /\ tasks[t].pc = "fin"
                  /\ ~syncing'
                  /\ watchers' = watchers
                  /\ handles' = handles
       /\ \A e \in pending :
            (Delivered(e) /\ ~syncing) =>
                \E t \in TaskIds :
                    /\ tasks[t].kind = "free"
                    /\ tasks'[t].kind = handles[e.h].kind
                    /\ tasks'[t].pc \in {"read", "stat"}]_vars

\* a conversion of a.md failed, its watcher is registered and open, and the next
\* change event of a.md waits
C16_Witness ==
    \E t \in TaskIds, e \in pending :
        /\ tasks[t].kind = "file"
        /\ tasks[t].src = "a.md"
        /\ tasks[t].err = "failed"
        /\ watchers["a.md"] # 0
        /\ handles[watchers["a.md"]].open
        /\ e.h = watchers["a.md"]
        /\ e.ev = "change"

\* ------------------------------------------------------------------ C17
\* an mdToPdf call that wrote the temporary HTML file has returned or thrown
PdfEnded == ppc = "idle" /\ pres # "none"

\* C17 as stated: whenever mdToPdf has created the temporary HTML file, the file
\* no longer exists once mdToPdf returns or throws, and a failure to delete it is
\* not reported as a conversion error.
C17_Original ==
    (PdfEnded /\ pmade) =>
        /\ ptemp = "absent"
        /\ pres # "remove"

\* ------------------------------------------------------------------ C18
\* the position of the first colon of a line, 0 without one
FirstColon(line) ==
    IF \E j \in 1..Len(line) : line[j] = Colon
    THEN CHOOSE j \in 1..Len(line) :
            line[j] = Colon /\ \A k \in 1..(j - 1) : line[k] # Colon
    ELSE 0

\* the lines of the block that declare a key, and what line i declares
Declaring == {i \in 1..Len(flines) : FirstColon(flines[i]) > 1}
KeyOf(i) == Trim(SubSeq(flines[i], 1, FirstColon(flines[i]) - 1))
ValueOf(i) == Trim(SubSeq(flines[i], FirstColon(flines[i]) + 1, Len(flines[i])))

\* the metadata the block declares (a key declared twice has its last value)
DeclaredMetadata ==
    {[key |-> KeyOf(i), value |-> ValueOf(i)] :
        i \in {j \in Declaring : \A k \in Declaring : KeyOf(k) = KeyOf(j) => k <= j}}

\* C18 as stated: the metadata holds exactly the declared keys with their trimmed
\* values, split at the first colon only; the block ends at the line-initial ---,
\* not at dashes inside a value; the body is the text after the closing delimiter.
C18_Original ==
    fpc = "done" =>
        /\ fmeta = DeclaredMetadata
        /\ fout = Trim(fbody)

\* a block is written without dashes in its values
NoDashesInBlock ==
    \A i \in 1..Len(flines) : \A j \in 1..Len(flines[i]) : flines[i][j] # Dashes

\* the parse of a block without dashes in it is the declared one
C18_WithoutDashes == (fpc = "done" /\ NoDashesInBlock) => C18_Original

\* ------------------------------------------------------------------ C19
\* how far a handler has come
PcRank(pc) ==
    CASE pc = "stat" -> 1
      [] pc = "cmp" -> 2
      [] pc = "read" -> 3
      [] pc = "write" -> 4
      [] pc = "fin" -> 5
      [] OTHER -> 0

\* a handler stands at a position of its code, and from each of these positions
\* its next step can be taken (RunnableCanStep holds in every reachable state)
Runnable(t) == HandlerTask(t) /\ PcRank(tasks[t].pc) > 0

RunnableCanStep == \A t \in TaskIds : Runnable(t) => ENABLED TaskStep(t)

\* C19: when a handler's conversion ends, by success or by exception, the handler
\* returns with syncing false; and syncing is never stuck at true: while it is
\* true a handler is in flight whose next step can be taken, and every step takes
\* the handler nearer to its finally block.
C19_FlagCleared ==
    /\ [][\A t \in TaskIds :
            /\ (HandlerTask(t) /\ tasks'[t].kind = "free") => ~syncing'
            /\ (HandlerTask(t) /\ tasks'[t].kind # "free" /\ tasks'[t].pc # tasks[t].pc) =>
                    PcRank(tasks'[t].pc) > PcRank(tasks[t].pc)]_vars
    /\ [](syncing => \E t \in TaskIds : Runnable(t))

\* a conversion of a directory watch has ended with an exception and its handler
\* is at the finally block, syncing still set
C19_Witness ==
    \E t \in TaskIds :
        /\ tasks[t].kind = "dir"
        /\ tasks[t].pc = "fin"
        /\ tasks[t].err = "failed"
        /\ syncing

\* ------------------------------------------------------------------ C20
\* the state of a path: watching while it is registered, stopped when it is not
\* and a watcher of it was closed, else unwatched
PathState(p) ==
    IF watchers[p] # 0 THEN "watching"
    ELSE IF \E i \in HandleIds : handles[i].path = p /\ ~handles[i].open THEN "stopped"
    ELSE "unwatched"

\* a watcher for path p is created in this step
NewWatcher(p) ==
    /\ Len(handles') = Len(handles) + 1
    /\ handles'[Len(handles')].path = p

\* C20 as stated: a path goes unwatched -> watching -> stopped and makes no other
\* transition: a watcher for it is created only while it is unwatched, it becomes
\* stopped only from watching, and once stopped it is never watching again.
C20_Original ==
    [][\A p \in WatchPaths :
          /\ PathState(p)' # PathState(p) =>
                <<PathState(p), PathState(p)'>> \in
                    {<<"unwatched", "watching">>, <<"watching", "stopped">>}
          /\ NewWatcher(p) => PathState(p) = "unwatched"]_vars

\* ------------------------------------------------------------------ C21
\* C21 as stated: when stopAll() returns the registration map is empty and every
\* watcher this instance ever created is closed; stop(path) closes and removes the
\* watcher of path and leaves every other registration and watcher as it was.
C21_Original ==
    [][/\ StopAll =>
            /\ \A p \in WatchPaths : watchers'[p] = 0
            /\ \A i \in 1..Len(handles') : ~handles'[i].open
       /\ \A p \in WatchPaths :
            (Stop(p) /\ watchers[p] # 0) =>
                /\ watchers'[p] = 0 /\ ~handles'[watchers[p]].open
                /\ \A q \in WatchPaths \ {p} : watchers'[q] = watchers[q]
                /\ \A i \in HandleIds \ {watchers[p]} : handles'[i] = handles[i]]_vars

\* ------------------------------------------------------------------ C22
\* C22 as stated: an 'error' event of the underlying watcher is logged and the
\* watcher goes on, for a watchFile watch and for a watchDirectory watch alike: the
\* event ends neither the registration nor the process.
C22_Original ==
    [][\A h \in HandleIds :
          ErrorEvent(h) => process' = "running" /\ watchers' = watchers]_vars

\* ------------------------------------------------------------------ C23
\* C23 as stated: in watch mode and in watch-dir mode, a termination signal
\* (SIGINT or SIGTERM) that reaches the watching process runs stopAll() before the
\* process ends: every watcher is closed and the map is empty, while conversions
\* in flight are left as they are.
C23_Original ==
    [][\A sig \in Signals :
          (Signal(sig) /\ \E p \in WatchPaths : watchers[p] # 0) =>
              /\ process' = "stopped"
              /\ \A p \in WatchPaths : watchers'[p] = 0
              /\ \A i \in 1..Len(handles') : ~handles'[i].open
              /\ tasks' = tasks]_vars

\* ------------------------------------------------------------------ C24
\* C24 as stated: extractTemplate and getDefaultTemplate terminate whatever the
\* file system holds: every call that entered one of them returns a Template.
C24_Original ==
    (tcall.pc \in {"extract", "default"}) ~> (tcall.pc = "done" /\ tres # NoTemplate)

\* ------------------------------------------------------------------ C25
\* the work an event or a handler can still cause: an event on an .html file
\* leads to at most a stat and a comparison; a conversion of a .md file writes
\* one file, which every open watcher (at most MaxCalls) may report once
HtmlTaskWork(pc) == CASE pc = "stat" -> 3 [] pc = "cmp" -> 2 [] OTHER -> 2
HtmlEventWork == HtmlTaskWork("stat") + 1
MdWriteWork == 2 + HtmlEventWork * MaxCalls
MdEventWork == MdWriteWork + 4

TaskWork(tk) ==
    IF tk.kind = "free" THEN 0
    ELSE IF tk.pc \in {"fin", "reg"} THEN 1
    ELSE IF ExtName(tk.src) = ".html" THEN HtmlTaskWork(tk.pc)
    ELSE (CASE tk.pc = "write" -> MdWriteWork
            [] tk.pc = "read" -> MdWriteWork + 1
            [] tk.pc = "cmp" -> MdWriteWork + 2
            [] tk.pc = "exists" -> MdWriteWork + 2
            [] OTHER -> MdWriteWork + 3)

RECURSIVE TasksWork(_, _)
TasksWork(tk, n) == IF n = 0 THEN 0 ELSE TaskWork(tk[n]) + TasksWork(tk, n - 1)

WorkLeft(pd, tk) ==
    MdEventWork * Cardinality({e \in pd : ExtName(e.file) = ".md"})
    + HtmlEventWork * Cardinality({e \in pd : ExtName(e.file) = ".html"})
    + TasksWork(tk, MaxTasks)

HasBackLink == \E i \in 1..Len(rtoc.content) : rtoc.content[i].back

\* the container holds the TOC block (.toc-toggle and the toggleTOC script)
HasTocBlock == \E k \in 1..Len(rbody) : rbody[k] = TocItem

\* C26 as stated: an assembled document that holds a "back to TOC" link also holds
\* the TOC block the link scrolls to and toggles, whatever the headings are.
C26_Original == (rpc = "done" /\ HasBackLink) => HasTocBlock

\* ------------------------------------------------------------------ C27
\* C27 as stated: mdToPdf changes no file that existed before the call other than
\* the output PDF: a file <name>-temp.html that was there before keeps its
\* existence and its content through every step of the call.
C27_Original == [][ptemp = "old" => ptemp' = "old"]_vars

\* ------------------------------------------------------------------ C28
\* C28 as stated: mdToHtml is idempotent: two calls in a row on an unchanged
\* Markdown file, with no template argument, write the same document, also when
\* the first output lies in the Markdown file's directory and src/template.html
\* does not exist.
C28_Original == \A i \in 1..(Len(hlog) - 1) : hlog[i + 1] = hlog[i]

\* with src/template.html in place every call writes the same document
C28_WithCanonical == hcanon.st = "ok" => C28_Original

C30_FlagMeansHandler ==
    /\ [](syncing <=> \E t \in TaskIds : HandlerTask(t))
    /\ [][((\E p \in WatchPaths : Stop(p)) \/ StopAll) => syncing' = syncing]_vars

\* every watcher has been stopped while a handler is in flight: the flag is set
C30_Witness ==
    /\ syncing
    /\ \E t \in TaskIds : HandlerTask(t) /\ tasks[t].pc # "fin"
    /\ handles # <<>>
    /\ \A i \in HandleIds : ~handles[i].open

=============================================================================
